---- MODULE Spec2Model ----
(***************************************************************************)
(* State-machine models of the repository's three programs.  The main one  *)
(* is scripts/DataAcquisition.py: main() drives a Keithley source meter    *)
(* over a pyvisa channel through connect, identify, configure, enable,     *)
(* measure, disable and close (Spec, FairSpec).  scripts/DataAnalysis.py   *)
(* (SpecAnalysis) and dashboard/pages/analyze_data_page.py (SpecPage)      *)
(* follow it.                                                              *)
(*                                                                         *)
(* The channel is an external collaborator: every call on it either        *)
(* returns, raises a pyvisa.Error, raises some other Exception, or (inside *)
(* the try block, where the run blocks on I/O and on time.sleep) is cut    *)
(* short by a KeyboardInterrupt, the only abort the script can receive.    *)
(* Calls made by the finally block either return or raise an Exception.    *)
(***************************************************************************)
EXTENDS Integers, Sequences, FiniteSets, TLC

VARIABLES
    pc,           \* position of main() in its code
    cfg,          \* index of the next attribute / configuration statement
    i,            \* loop variable of "for i in range(NUM_READINGS)"
    instrument,   \* the local "instrument": "None" or "Resource"
    data_string,  \* the local "data_string": last response to :READ?
    readings,     \* the local "readings": list of (voltage, current)
    log,          \* every call made on the VISA layer, in order, with its result
    out,          \* the lines printed to stdout, in order
    exc,          \* the exception in flight (NoExc when none)
    \* scripts/DataAnalysis.py, main()
    a_pc,         \* position of the analysis in its code
    df,           \* the loaded frame: rows of (Voltage (V), Current (A))
    power,        \* the column df['Power (W)']
    peak_power_watts,       \* the local of line 52
    peak_power_microwatts,  \* the local of line 55
    \* dashboard/pages/analyze_data_page.py, one run of the script per render
    p_pc,         \* position of the page script in its code
    renders,      \* number of renders started so far
    uploaded_file,  \* what st.file_uploader returned: "None" or the file kind
    page_df,      \* the page's name "df": "unbound" or "DataFrame"
    df_reads,     \* the evaluations of the name df in this render, in order
    page_exc,     \* the exception that stopped this render ("none" if none)
    normalize,    \* value of the "Normalize data" checkbox
    remove_outliers \* value of the "Remove outliers" checkbox

\* The variables of the acquisition script, of the analysis script and of
\* the dashboard page: three programs that share no state.
acquisitionVars == <<pc, cfg, i, instrument, data_string, readings, log, out, exc>>

analysisVars == <<a_pc, df, power, peak_power_watts, peak_power_microwatts>>

pageVars == <<p_pc, renders, uploaded_file, page_df, df_reads, page_exc,
              normalize, remove_outliers>>

vars == <<acquisitionVars, analysisVars, pageVars>>

\* Number of readings taken by the loop.  The script sets 10; the loop body
\* is the same for every count, and the model runs it with a smaller one.
NUM_READINGS == 4

----------------------------------------------------------------------------
(* Strings are sequences of one-character strings.                         *)

Str_1c2     == <<"1", ",", "2">>
Str_m2c1nl  == <<" ", "-", "2", ",", "1", " ">>
Str_3fields == <<"x", ",", "1", ",", "1">>
Str_nonnum  == <<"1", ",", "x">>
Str_1field  == <<"7">>
Str_idn     == <<"K", "2", "4", " ">>

\* Responses the instrument may give to :READ? (two well-formed, three not).
ReadResponses == {Str_1c2, Str_m2c1nl, Str_3fields, Str_nonnum, Str_1field}

\* Responses the instrument may give to *IDN?.
IdnResponses == {Str_idn, <<>>}

Whitespace == {" ", "\n", "\t", "\r"}

DigitChars == {"0", "1", "2", "3", "4", "5", "6", "7", "8", "9"}

DigitVal(c) ==
    CASE c = "0" -> 0 [] c = "1" -> 1 [] c = "2" -> 2 [] c = "3" -> 3
      [] c = "4" -> 4 [] c = "5" -> 5 [] c = "6" -> 6 [] c = "7" -> 7
      [] c = "8" -> 8 [] c = "9" -> 9

RECURSIVE LStrip(_)
LStrip(s) ==
    IF s # <<>> /\ Head(s) \in Whitespace THEN LStrip(Tail(s)) ELSE s

RECURSIVE RStrip(_)
RStrip(s) ==
    IF s # <<>> /\ s[Len(s)] \in Whitespace
    THEN RStrip(SubSeq(s, 1, Len(s) - 1))
    ELSE s

\* str.strip()
Strip(s) == RStrip(LStrip(s))

\* str.split(','): the list of fields between commas (never empty).
RECURSIVE Split(_)
Split(s) ==
    IF \E j \in 1..Len(s) : s[j] = ","
    THEN LET j == CHOOSE n \in 1..Len(s) :
                     s[n] = "," /\ \A m \in 1..(n - 1) : s[m] # ","
         IN  <<SubSeq(s, 1, j - 1)>> \o Split(SubSeq(s, j + 1, Len(s)))
    ELSE <<s>>

\* The digits of a numeral: surrounding whitespace and one sign removed.
Unsigned(s) ==
    LET t == Strip(s)
    IN  IF t # <<>> /\ Head(t) \in {"-", "+"} THEN Tail(t) ELSE t

\* Whether float(s) returns (integer numerals only) rather than raising
\* ValueError.
IsFloat(s) ==
    /\ Unsigned(s) # <<>>
    /\ \A j \in 1..Len(Unsigned(s)) : Unsigned(s)[j] \in DigitChars

RECURSIVE DigitsVal(_)
DigitsVal(s) ==
    IF s = <<>> THEN 0
    ELSE 10 * DigitsVal(SubSeq(s, 1, Len(s) - 1)) + DigitVal(s[Len(s)])

\* float(s) for a string that IsFloat.
Float(s) ==
    LET t == Strip(s)
    IN  IF Head(t) = "-" THEN 0 - DigitsVal(Unsigned(s)) ELSE DigitsVal(Unsigned(s))

----------------------------------------------------------------------------
(* Exceptions, log records and printed lines.                              *)

NoExc == [type |-> "none", line |-> 0]

Exc(t, l) == [type |-> t, line |-> l]

\* Results of a call on the channel made inside the try block.
TryResults == {"ok", "VisaIOError", "Exception", "KeyboardInterrupt"}

\* Results of a call on the channel made inside the finally block.
CleanupResults == {"ok", "VisaIOError", "Exception"}

\* One call on the VISA layer (or time.sleep): its call site, what was
\* called, how it ended and, for a query that returned, the response.
Call(line, op, cmd, res, resp) ==
    [line |-> line, op |-> op, cmd |-> cmd, res |-> res, resp |-> resp]

Line(text, args) == [text |-> text, args |-> args]

\* The attribute assignments of lines 66-68, in order.
Attributes == <<"timeout", "read_termination", "write_termination">>

AttributeLines == <<66, 67, 68>>

\* The reset and the seven configuration writes of lines 78-104, in order.
ConfigCommands ==
    << "*RST", ":SOUR:FUNC VOLT", ":SOUR:VOLT:MODE FIXED", ":SOUR:VOLT:LEV",
       ":SENS:FUNC CURR", ":SENS:CURR:PROT", ":SENS:CURR:RANG:AUTO ON",
       ":FORM:ELEM VOLT, CURR" >>

ConfigLines == <<78, 82, 85, 88, 93, 96, 99, 104>>

\* Variant of Raise: the statement that raised is tried again.
RaiseRetry(e) == UNCHANGED <<pc, exc>>

\* An exception raised in the try block: control leaves for the handlers.
Raise(e) ==
    /\ pc' = "except"
    /\ exc' = e

----------------------------------------------------------------------------

\* A cell of the frame: a number, or NaN (a missing value).
NaN == [nan |-> TRUE, val |-> 0]

Num(v) == [nan |-> FALSE, val |-> v]

\* DataAnalysis.py before its first statement.
AnalysisInit ==
    /\ a_pc = "load"
    /\ df = <<>>
    /\ power = <<>>
    /\ peak_power_watts = NaN
    /\ peak_power_microwatts = NaN

\* analyze_data_page.py before its first render.
PageInit ==
    /\ p_pc = "start"
    /\ renders = 0
    /\ uploaded_file = "None"
    /\ page_df = "unbound"
    /\ df_reads = <<>>
    /\ page_exc = "none"
    /\ normalize = FALSE
    /\ remove_outliers = FALSE

Init ==
    /\ AnalysisInit
    /\ PageInit
    /\ pc = "rm"
    /\ cfg = 1
    /\ i = 0
    /\ instrument = "None"
    /\ data_string = <<>>
    /\ readings = <<>>
    /\ log = <<>>
    /\ out = <<>>
    /\ exc = NoExc

\* line 58: rm = pyvisa.ResourceManager()
CreateResourceManager ==
    /\ pc = "rm"
    /\ \E r \in TryResults :
        /\ log' = Append(log, Call(58, "ResourceManager", "", r, <<>>))
        /\ IF r = "ok"
           THEN pc' = "list" /\ UNCHANGED exc
           ELSE Raise(Exc(r, 58))
    /\ UNCHANGED <<cfg, i, instrument, data_string, readings, out>>
    /\ UNCHANGED <<analysisVars, pageVars>>

\* line 59: print(rm.list_resources())
ListResources ==
    /\ pc = "list"
    /\ \E r \in TryResults :
        /\ log' = Append(log, Call(59, "list_resources", "", r, <<>>))
        /\ IF r = "ok"
           THEN /\ pc' = "open"
                /\ out' = Append(out, Line("Available VISA resources", <<>>))
                /\ UNCHANGED exc
           ELSE Raise(Exc(r, 59)) /\ UNCHANGED out
    /\ UNCHANGED <<cfg, i, instrument, data_string, readings>>
    /\ UNCHANGED <<analysisVars, pageVars>>

\* lines 62-63: instrument = rm.open_resource(INSTRUMENT_RESOURCE_STRING)
OpenResource ==
    /\ pc = "open"
    /\ out' = Append(out, Line("Connecting to", <<>>))
    /\ \E r \in TryResults :
        /\ log' = Append(log, Call(63, "open_resource", "", r, <<>>))
        /\ IF r = "ok"
           THEN /\ instrument' = "Resource"
                /\ pc' = "attr"
                /\ cfg' = 1
                /\ UNCHANGED exc
           ELSE Raise(Exc(r, 63)) /\ UNCHANGED <<instrument, cfg>>
    /\ UNCHANGED <<i, data_string, readings>>
    /\ UNCHANGED <<analysisVars, pageVars>>

\* lines 66-68: timeout, read_termination, write_termination
SetAttribute ==
    /\ pc = "attr"
    /\ \E r \in TryResults :
        /\ log' = Append(log, Call(AttributeLines[cfg], "set", Attributes[cfg], r, <<>>))
        /\ IF r = "ok"
           THEN /\ IF cfg < Len(Attributes)
                   THEN pc' = "attr" /\ cfg' = cfg + 1
                   ELSE pc' = "idn" /\ cfg' = 1
                /\ UNCHANGED exc
           ELSE Raise(Exc(r, AttributeLines[cfg])) /\ UNCHANGED cfg
    /\ UNCHANGED <<i, instrument, data_string, readings, out>>
    /\ UNCHANGED <<analysisVars, pageVars>>

\* lines 72-73: idn_string = instrument.query('*IDN?'); print it stripped
Identify ==
    /\ pc = "idn"
    /\ \E r \in TryResults :
        IF r = "ok"
        THEN \E resp \in IdnResponses :
                /\ log' = Append(log, Call(72, "query", "*IDN?", r, resp))
                /\ out' = Append(out, Line("Connected to", Strip(resp)))
                /\ pc' = "config"
                /\ cfg' = 1
                /\ UNCHANGED exc
        ELSE /\ log' = Append(log, Call(72, "query", "*IDN?", r, <<>>))
             /\ Raise(Exc(r, 72))
             /\ UNCHANGED <<out, cfg>>
    /\ UNCHANGED <<i, instrument, data_string, readings>>
    /\ UNCHANGED <<analysisVars, pageVars>>

\* Variant of ConfigFailure: the error of the write is dropped and the run
\* goes on with the next statement.
ConfigFailureIgnored(r) ==
    /\ IF cfg < Len(ConfigCommands)
       THEN pc' = "config" /\ cfg' = cfg + 1
       ELSE pc' = "enable" /\ cfg' = 1
    /\ UNCHANGED exc

\* What follows a configuration write that raised r.
ConfigFailure(r) ==
    Raise(Exc(r, ConfigLines[cfg])) /\ UNCHANGED cfg

\* lines 78-104: *RST and the seven source / sense / format writes
Configure ==
    /\ pc = "config"
    /\ \E r \in TryResults :
        /\ log' = Append(log, Call(ConfigLines[cfg], "write", ConfigCommands[cfg], r, <<>>))
        /\ IF r = "ok"
           THEN /\ IF cfg < Len(ConfigCommands)
                   THEN pc' = "config" /\ cfg' = cfg + 1
                   ELSE pc' = "enable" /\ cfg' = 1
                /\ UNCHANGED exc
           ELSE ConfigFailure(r)
    /\ UNCHANGED <<i, instrument, data_string, readings, out>>
    /\ UNCHANGED <<analysisVars, pageVars>>

\* Variant of LoopNext: the loop runs one iteration too many.
LoopNextOffByOne(n) == IF n <= NUM_READINGS THEN "read" ELSE "disable"

\* Where the loop header of line 114 sends control for loop variable n.
LoopNext(n) == IF n < NUM_READINGS THEN "read" ELSE "disable"

\* lines 107-114: print, instrument.write(':OUTP ON'), readings = [], loop
EnableOutput ==
    /\ pc = "enable"
    /\ \E r \in TryResults :
        /\ log' = Append(log, Call(108, "write", ":OUTP ON", r, <<>>))
        /\ IF r = "ok"
           THEN /\ out' = out \o << Line("Turning output ON.", <<>>),
                                    Line("Starting measurements...", <<>>) >>
                /\ readings' = <<>>
                /\ i' = 0
                /\ pc' = LoopNext(0)
                /\ UNCHANGED exc
           ELSE /\ out' = Append(out, Line("Turning output ON.", <<>>))
                /\ Raise(Exc(r, 108))
                /\ UNCHANGED <<readings, i>>
    /\ UNCHANGED <<cfg, instrument, data_string>>
    /\ UNCHANGED <<analysisVars, pageVars>>

\* line 118: data_string = instrument.query(':READ?')
ReadTrigger ==
    /\ pc = "read"
    /\ \E r \in TryResults :
        IF r = "ok"
        THEN \E resp \in ReadResponses :
                /\ log' = Append(log, Call(118, "query", ":READ?", r, resp))
                /\ data_string' = resp
                /\ pc' = "parse"
                /\ UNCHANGED exc
        ELSE /\ log' = Append(log, Call(118, "query", ":READ?", r, <<>>))
             /\ Raise(Exc(r, 118))
             /\ UNCHANGED data_string
    /\ UNCHANGED <<cfg, i, instrument, readings, out>>
    /\ UNCHANGED <<analysisVars, pageVars>>

\* Variant of ParseFailure: the malformed response is skipped and the loop
\* goes on.
ParseFailureSkips(l) ==
    /\ pc' = "sleep"
    /\ UNCHANGED <<readings, out, exc>>

\* What follows a response that cannot be parsed (ValueError at line l).
ParseFailure(l) ==
    Raise(Exc("ValueError", l)) /\ UNCHANGED <<readings, out>>

\* lines 121-129: split into two fields, float() each, append, print
ParseReading ==
    /\ pc = "parse"
    /\ LET fields == Split(Strip(data_string))
       IN  IF Len(fields) # 2 THEN ParseFailure(121)
           ELSE IF ~IsFloat(fields[1]) THEN ParseFailure(124)
           ELSE IF ~IsFloat(fields[2]) THEN ParseFailure(125)
           ELSE /\ readings' = Append(readings, <<Float(fields[1]), Float(fields[2])>>)
                /\ out' = Append(out, Line("Reading",
                              <<i + 1, Float(fields[1]), Float(fields[2])>>))
                /\ pc' = "sleep"
                /\ UNCHANGED exc
    /\ UNCHANGED <<cfg, i, instrument, data_string, log>>
    /\ UNCHANGED <<analysisVars, pageVars>>

\* Variant of Sleep: the output is switched off for the wait between readings.
SleepDisabling ==
    /\ pc = "sleep"
    /\ \E r \in {"ok", "KeyboardInterrupt"} :
        /\ log' = log \o << Call(131, "write", ":OUTP OFF", "ok", <<>>),
                            Call(132, "sleep", "", r, <<>>) >>
        /\ IF r = "ok"
           THEN i' = i + 1 /\ pc' = LoopNext(i + 1) /\ UNCHANGED exc
           ELSE Raise(Exc(r, 132)) /\ UNCHANGED i
    /\ UNCHANGED <<cfg, instrument, data_string, readings, out>>
    /\ UNCHANGED <<analysisVars, pageVars>>

\* line 132 and the loop header: time.sleep(READING_INTERVAL), next i
Sleep ==
    /\ pc = "sleep"
    /\ \E r \in {"ok", "KeyboardInterrupt"} :
        /\ log' = Append(log, Call(132, "sleep", "", r, <<>>))
        /\ IF r = "ok"
           THEN i' = i + 1 /\ pc' = LoopNext(i + 1) /\ UNCHANGED exc
           ELSE Raise(Exc(r, 132)) /\ UNCHANGED i
    /\ UNCHANGED <<cfg, instrument, data_string, readings, out>>
    /\ UNCHANGED <<analysisVars, pageVars>>

\* lines 135-136: print, instrument.write(':OUTP OFF') after the loop
DisableOutput ==
    /\ pc = "disable"
    /\ out' = Append(out, Line("Turning output OFF.", <<>>))
    /\ \E r \in TryResults :
        /\ log' = Append(log, Call(136, "write", ":OUTP OFF", r, <<>>))
        /\ IF r = "ok"
           THEN pc' = "report" /\ UNCHANGED exc
           ELSE Raise(Exc(r, 136))
    /\ UNCHANGED <<cfg, i, instrument, data_string, readings>>
    /\ UNCHANGED <<analysisVars, pageVars>>

\* lines 139-142: print the collected data, one line per reading
ProcessData ==
    /\ pc = "report"
    /\ out' = out \o << Line("--- Measurement Complete ---", <<>>) >>
                  \o [n \in 1..Len(readings) |-> Line("data", readings[n])]
    /\ pc' = "finally"
    /\ UNCHANGED <<cfg, i, instrument, data_string, readings, log, exc>>
    /\ UNCHANGED <<analysisVars, pageVars>>

\* Variant of HandleVisaError: the handler also closes the connection.
HandleVisaErrorClosing ==
    /\ pc = "except"
    /\ exc.type = "VisaIOError"
    /\ out' = Append(out, Line("A VISA error occurred", exc))
    /\ log' = IF instrument # "None"
              THEN Append(log, Call(154, "close", "", "ok", <<>>))
              ELSE log
    /\ exc' = NoExc
    /\ pc' = "finally"
    /\ UNCHANGED <<cfg, i, instrument, data_string, readings>>
    /\ UNCHANGED <<analysisVars, pageVars>>

\* lines 152-154: except pyvisa.Error as e
HandleVisaError ==
    /\ pc = "except"
    /\ exc.type = "VisaIOError"
    /\ out' = Append(out, Line("A VISA error occurred", exc))
    /\ exc' = NoExc
    /\ pc' = "finally"
    /\ UNCHANGED <<cfg, i, instrument, data_string, readings, log>>
    /\ UNCHANGED <<analysisVars, pageVars>>

\* lines 155-157: except Exception as e
HandleException ==
    /\ pc = "except"
    /\ exc.type \in {"Exception", "ValueError"}
    /\ out' = Append(out, Line("An error occurred", exc))
    /\ exc' = NoExc
    /\ pc' = "finally"
    /\ UNCHANGED <<cfg, i, instrument, data_string, readings, log>>
    /\ UNCHANGED <<analysisVars, pageVars>>

\* Variant of PassInterrupt: the interrupt leaves main() without the cleanup.
PassInterruptExits ==
    /\ pc = "except"
    /\ exc.type = "KeyboardInterrupt"
    /\ pc' = "done"
    /\ UNCHANGED <<cfg, i, instrument, data_string, readings, log, out, exc>>
    /\ UNCHANGED <<analysisVars, pageVars>>

\* A KeyboardInterrupt matches neither except clause: it stays in flight
\* while the finally block runs.
PassInterrupt ==
    /\ pc = "except"
    /\ exc.type = "KeyboardInterrupt"
    /\ pc' = "finally"
    /\ UNCHANGED <<cfg, i, instrument, data_string, readings, log, out, exc>>
    /\ UNCHANGED <<analysisVars, pageVars>>

\* Variant of Finally: the connection is closed without the disable-output
\* write.
FinallyCloseOnly ==
    /\ pc = "finally"
    /\ IF instrument # "None"
       THEN /\ out' = Append(out, Line("Closing connection.", <<>>))
            /\ pc' = "close"
       ELSE /\ pc' = "done"
            /\ UNCHANGED out
    /\ UNCHANGED <<cfg, i, instrument, data_string, readings, log, exc>>
    /\ UNCHANGED <<analysisVars, pageVars>>

\* Variant of Finally: the cleanup runs without the "if instrument" test.
FinallyUnconditional ==
    /\ pc = "finally"
    /\ out' = Append(out, Line("Closing connection.", <<>>))
    /\ pc' = "cleanup_off"
    /\ UNCHANGED <<cfg, i, instrument, data_string, readings, log, exc>>
    /\ UNCHANGED <<analysisVars, pageVars>>

\* lines 158-162: finally: if instrument: print("Closing connection.")
Finally ==
    /\ pc = "finally"
    /\ IF instrument # "None"
       THEN /\ out' = Append(out, Line("Closing connection.", <<>>))
            /\ pc' = "cleanup_off"
       ELSE /\ pc' = "done"
            /\ UNCHANGED out
    /\ UNCHANGED <<cfg, i, instrument, data_string, readings, log, exc>>
    /\ UNCHANGED <<analysisVars, pageVars>>

\* Variant of AfterCleanupDisable: a cleanup write that raised ends the
\* finally block.
AfterCleanupDisableStops(r) == IF r = "ok" THEN "close" ELSE "done"

\* Where control goes after the cleanup write returned or raised r.
AfterCleanupDisable(r) == "close"

\* lines 164-167: try: instrument.write(':OUTP OFF') except Exception: print
CleanupDisable ==
    /\ pc = "cleanup_off"
    /\ \E r \in CleanupResults :
        /\ log' = Append(log, Call(165, "write", ":OUTP OFF", r, <<>>))
        /\ IF r = "ok"
           THEN UNCHANGED out
           ELSE out' = Append(out, Line("Could not turn off output during cleanup",
                                        Exc(r, 165)))
        /\ pc' = AfterCleanupDisable(r)
    /\ UNCHANGED <<cfg, i, instrument, data_string, readings, exc>>
    /\ UNCHANGED <<analysisVars, pageVars>>

\* Variant of Close: the defensive disable-output write comes after the close.
CloseThenDisable ==
    /\ pc = "close"
    /\ \E r \in CleanupResults :
        /\ log' = log \o << Call(168, "close", "", r, <<>>),
                            Call(165, "write", ":OUTP OFF", "ok", <<>>) >>
        /\ IF r = "ok" THEN UNCHANGED exc ELSE exc' = Exc(r, 168)
    /\ pc' = "done"
    /\ UNCHANGED <<cfg, i, instrument, data_string, readings, out>>
    /\ UNCHANGED <<analysisVars, pageVars>>

\* line 168: instrument.close(), not guarded: what it raises leaves main()
\* and takes the place of any exception that was in flight.
Close ==
    /\ pc = "close"
    /\ \E r \in CleanupResults :
        /\ log' = Append(log, Call(168, "close", "", r, <<>>))
        /\ IF r = "ok" THEN UNCHANGED exc ELSE exc' = Exc(r, 168)
    /\ pc' = "done"
    /\ UNCHANGED <<cfg, i, instrument, data_string, readings, out>>
    /\ UNCHANGED <<analysisVars, pageVars>>

\* One step of the acquisition script.
Next ==
    \/ CreateResourceManager
    \/ ListResources
    \/ OpenResource
    \/ SetAttribute
    \/ Identify
    \/ Configure
    \/ EnableOutput
    \/ ReadTrigger
    \/ ParseReading
    \/ Sleep
    \/ DisableOutput
    \/ ProcessData
    \/ HandleVisaError
    \/ HandleException
    \/ PassInterrupt
    \/ Finally
    \/ CleanupDisable
    \/ Close

Spec == Init /\ [][Next]_vars

----------------------------------------------------------------------------
(* What a run shows to the outside: the calls on the channel (log), the    *)
(* lines on stdout (out) and the exception that leaves main() (exc at      *)
(* "done").                                                                *)

Calls == DOMAIN log

WritesOf(cmd) == {n \in Calls : log[n].op = "write" /\ log[n].cmd = cmd}

Closes == {n \in Calls : log[n].op = "close"}

ReadTriggers == {n \in Calls : log[n].op = "query" /\ log[n].cmd = ":READ?"}

\* Calls on the opened connection.
ConnectionCalls == {n \in Calls : log[n].op \in {"set", "write", "query", "close"}}

\* The calls of the finally block.
CleanupCalls == {n \in Calls : log[n].line >= 158}

ConfigCommandSet == {ConfigCommands[n] : n \in DOMAIN ConfigCommands}

\* The error messages printed by the two except clauses.
IsErrorLine(l) == l.text \in {"A VISA error occurred", "An error occurred"}

ErrorLines == SelectSeq(out, IsErrorLine)

\* The readings printed one by one by the loop, and those of the final report.
ReadingLines == SelectSeq(out, LAMBDA l : l.text = "Reading")

DataLines == SelectSeq(out, LAMBDA l : l.text = "data")

\* The stage of the run a source line belongs to.
StageOfLine(l) ==
    IF l <= 68 THEN "Connect"
    ELSE IF l <= 73 THEN "Identify"
    ELSE IF l <= 104 THEN "Configure"
    ELSE IF l <= 108 THEN "Enable"
    ELSE IF l <= 132 THEN "Measure"
    ELSE IF l <= 136 THEN "Disable"
    ELSE "Cleanup"

\* The well-formed responses and the reading each stands for, and the
\* malformed ones, stated independently of the parsing operators.
GoodResponses == {Str_1c2, Str_m2c1nl}

BadResponses == {Str_3fields, Str_nonnum, Str_1field}

ExpectedReading(resp) ==
    IF resp = Str_1c2 THEN <<1, 2>> ELSE <<0 - 2, 1>>

\* The read-triggers that returned a well-formed response, in issue order,
\* each turned into the reading it stands for.
RECURSIVE ExpectedReadings(_)
ExpectedReadings(n) ==
    IF n = 0 THEN <<>>
    ELSE IF n \in ReadTriggers /\ log[n].res = "ok" /\ log[n].resp \in GoodResponses
         THEN Append(ExpectedReadings(n - 1), ExpectedReading(log[n].resp))
         ELSE ExpectedReadings(n - 1)

Done == pc = "done"

Opened == instrument # "None"

----------------------------------------------------------------------------
\* C1: the enable-output write (:OUTP ON) is issued only after the reset and
\* the seven configuration writes have each been issued and returned without
\* error; once one of those writes has failed, no enable-output write is
\* issued in the run.
C1_EnableOnlyAfterConfig ==
    /\ \A n \in WritesOf(":OUTP ON") :
          \A c \in ConfigCommandSet :
              \E m \in 1..(n - 1) :
                  log[m].op = "write" /\ log[m].cmd = c /\ log[m].res = "ok"
    /\ (\E m \in Calls : /\ log[m].op = "write"
                         /\ log[m].cmd \in ConfigCommandSet
                         /\ log[m].res # "ok")
          => WritesOf(":OUTP ON") = {}

\* C1 witness: a finished run that issued the enable-output write.
C1_Witness == Done /\ WritesOf(":OUTP ON") # {}

FailedAfterOpen ==
    \/ \E n \in Calls : /\ log[n].line > 63
                        /\ log[n].line < 158
                        /\ log[n].res \in {"VisaIOError", "Exception"}
    \/ \E n \in DOMAIN out : IsErrorLine(out[n]) /\ out[n].args.type = "ValueError"

ConnectFailed ==
    \E n \in Calls : /\ log[n].line <= 63
                     /\ log[n].res \in {"VisaIOError", "Exception"}

\* C4: when opening the connection fails, nothing is ever issued on a
\* connection (no attribute set, write, query or close), no reading exists,
\* and the run ends having reported one error, of the Connect stage.
C4_ConnectFailure ==
    ConnectFailed =>
        /\ ConnectionCalls = {}
        /\ readings = <<>>
        /\ ReadingLines = <<>>
        /\ Done => /\ Len(ErrorLines) = 1
                   /\ StageOfLine(ErrorLines[1].args.line) = "Connect"
                   /\ exc = NoExc

\* C4 witness: a run whose open_resource call raised has ended.
C4_Witness ==
    /\ Done
    /\ \E n \in Calls : log[n].op = "open_resource" /\ log[n].res = "VisaIOError"

\* A finished run in which every call returned and every response parsed.
FullSuccess ==
    /\ Done
    /\ \A n \in Calls : log[n].res = "ok"
    /\ ErrorLines = <<>>

\* C5: a run in which nothing fails reports exactly NUM_READINGS readings,
\* the ones the read-triggers returned, in the order the triggers were issued.
C5_SuccessReturnsAllReadings ==
    FullSuccess =>
        /\ Len(readings) = NUM_READINGS
        /\ Cardinality(ReadTriggers) = NUM_READINGS
        /\ readings = ExpectedReadings(Len(log))
        /\ Len(DataLines) = NUM_READINGS
        /\ \A n \in 1..Len(DataLines) : DataLines[n].args = readings[n]

\* C5 witness: a fully successful run whose readings are not all equal.
C5_Witness ==
    /\ FullSuccess
    /\ \E a, b \in 1..Len(readings) : readings[a] # readings[b]

\* The read-triggers answered with a response that cannot be parsed.
BadReads == {n \in ReadTriggers : log[n].res = "ok" /\ log[n].resp \in BadResponses}

\* C6: a response that cannot be parsed stops the loop: no read-trigger is
\* issued after it, the readings parsed before it are kept as they were, and
\* the run ends having reported one error, of the Measure stage, with exactly
\* the readings of the earlier triggers collected and printed.
C6_ParseFailureKeepsPartial ==
    \A n \in BadReads :
        /\ \A m \in ReadTriggers : m <= n
        /\ readings = ExpectedReadings(n)
        /\ Len(readings) = Cardinality(ReadTriggers) - 1
        /\ Len(ReadingLines) = Len(readings)
        /\ \A k \in 1..Len(readings) : ReadingLines[k].args = <<k>> \o readings[k]
        /\ Done => /\ Len(ErrorLines) = 1
                   /\ ErrorLines[1].args.type = "ValueError"
                   /\ StageOfLine(ErrorLines[1].args.line) = "Measure"

\* C6 witness: the fourth response was malformed and the run has ended with
\* the three readings before it.
C6_Witness ==
    /\ Done
    /\ BadReads # {}
    /\ Cardinality(ReadTriggers) = 4
    /\ Len(readings) = 3

\* The sleeps that a KeyboardInterrupt cut short: an abort requested after
\* one reading was collected and before the next read-trigger.
AbortedSleeps ==
    {n \in Calls : log[n].op = "sleep" /\ log[n].res = "KeyboardInterrupt"}

\* C7: an abort requested after reading k and before reading k+1 stops the
\* triggers (none is issued after it), sends the run straight to cleanup
\* (the disable-output write, then the close, and nothing else), and the run
\* ends as cancelled, not as an error, with exactly the k readings collected.
C7_CancelBetweenReadings ==
    \A n \in AbortedSleeps :
        /\ \A m \in ReadTriggers : m < n
        /\ readings = ExpectedReadings(n)
        /\ Len(readings) = Cardinality(ReadTriggers)
        /\ Done => /\ Len(log) = n + 2
                   /\ log[n + 1].op = "write" /\ log[n + 1].cmd = ":OUTP OFF"
                   /\ log[n + 2].op = "close"
                   /\ ErrorLines = <<>>
                   /\ exc.type = "KeyboardInterrupt"

\* The cleanup writes of line 165.
CleanupWrites == {n \in Calls : log[n].line = 165}

C9_CleanupNeverRaises ==
    Done => ~(exc # NoExc /\ StageOfLine(exc.line) = "Cleanup")

\* The final report of a successful run was printed.
Reported == \E n \in DOMAIN out : out[n].text = "--- Measurement Complete ---"

\* C10: a run ends with exactly one outcome: the report of the full series,
\* or one error of a stage of the run (a printed error, or the interrupt of
\* a cancelled run); an exception of the cleanup stage is never the outcome
\* and never stands beside or in place of the primary one.
C10_ExactlyOneOutcome ==
    Done =>
        /\ (IF Reported THEN 1 ELSE 0) + Len(ErrorLines)
              + (IF exc # NoExc THEN 1 ELSE 0) = 1
        /\ Reported => Len(DataLines) = NUM_READINGS
        /\ \A n \in 1..Len(ErrorLines) :
              StageOfLine(ErrorLines[n].args.line) # "Cleanup"
        /\ exc # NoExc => StageOfLine(exc.line) # "Cleanup"

\* C11: once the connection has been closed nothing more is issued on it:
\* no attribute set, write, query or close follows a close in the call log.
C11_NoUseAfterClose ==
    \A n \in Closes : \A m \in ConnectionCalls : m <= n

\* C11 witness: a run has ended with the connection closed after a full
\* measurement loop.
C11_Witness ==
    /\ Done
    /\ Closes # {}
    /\ Cardinality(ReadTriggers) = NUM_READINGS

\* The read-triggers whose response was received and is well-formed.
GoodReads == {n \in ReadTriggers : log[n].res = "ok" /\ log[n].resp \in GoodResponses}

\* The response received and not yet parsed (the run is between lines 118
\* and 121).
PendingParse == IF pc = "parse" /\ data_string \in GoodResponses THEN 1 ELSE 0

\* C12: in every state the number of collected readings lies in
\* 0..NUM_READINGS and equals the number of read-trigger responses received
\* and parsed so far.
C12_ReadingCountBounded ==
    /\ Len(readings) >= 0
    /\ Len(readings) <= NUM_READINGS
    /\ Len(readings) = Cardinality(GoodReads) - PendingParse

\* C12 witness: a partial series: two readings collected, then a failure.
C12_Witness ==
    /\ Done
    /\ Len(readings) = 2
    /\ Len(ErrorLines) = 1

\* The commands of lines 66-108 in the order of the source.
CommandOrder == Attributes \o <<"*IDN?">> \o ConfigCommands \o <<":OUTP ON">>

\* The calls made on the connection by the try block up to the measurement
\* loop (attribute sets, queries and writes of lines 66-118), in issue order.
TryCommands ==
    SelectSeq(log, LAMBDA c : c.line >= 66 /\ c.line <= 118)

\* C13: the commands are issued in one fixed order (timeout and the two
\* terminations, identification query, reset, the seven configuration
\* writes, enable output, then read-triggers), and each is issued only when
\* the command before it, hence every earlier one, returned without error.
C13_FixedOrder ==
    \A n \in 1..Len(TryCommands) :
        /\ TryCommands[n].cmd =
              (IF n <= Len(CommandOrder) THEN CommandOrder[n] ELSE ":READ?")
        /\ n > 1 => TryCommands[n - 1].res = "ok"

\* C13 witness: a read-trigger was issued.
C13_Witness == Len(TryCommands) > Len(CommandOrder)

\* The suspensions of line 132 that ran to their end.
Sleeps == {n \in Calls : log[n].op = "sleep" /\ log[n].res = "ok"}

\* C14: the loop suspends only between consecutive readings: a run that
\* collects all NUM_READINGS readings has suspended NUM_READINGS - 1 times,
\* and no suspension lies between its last read-trigger and the
\* disable-output write that follows the loop.
C14_SleepOnlyBetweenReadings ==
    (Len(readings) = NUM_READINGS /\ WritesOf(":OUTP OFF") # {}) =>
        /\ Cardinality(Sleeps) = NUM_READINGS - 1
        /\ \A n \in Sleeps : \E m \in ReadTriggers : m > n

\* A call of stages 2-5 (identify, configure, enable, measure: lines 72-132)
\* that did not return, or a response that could not be parsed.
FirstFailures ==
    {n \in Calls : /\ log[n].line >= 72
                   /\ log[n].line <= 132
                   /\ \/ log[n].res # "ok"
                      \/ n \in BadReads /\ pc # "parse"}

\* C15: nothing is retried: after a failure in stages 2-5 the only calls on
\* the connection are the cleanup disable-output write and the close.
C15_NoRetry ==
    \A n \in FirstFailures :
        \A m \in Calls :
            m > n => log[m].line \in {165, 168}

\* C15 witness: a configuration write failed and the run has ended after
\* its cleanup.
C15_Witness ==
    /\ Done
    /\ \E n \in FirstFailures :
          /\ log[n].cmd \in ConfigCommandSet
          /\ Len(log) = n + 2

\* The identification queries of line 72.
IdnQueries == {n \in Calls : log[n].line = 72}

\* C16: the run goes from Identify to the reset only when the
\* identification query returned a non-empty response; after an empty
\* response or a failed query no reset, configuration or enable write is
\* issued, and the run ends with the connection closed.
C16_IdentifyNeedsResponse ==
    \A n \in IdnQueries :
        (log[n].res # "ok" \/ Strip(log[n].resp) = <<>>) =>
            /\ \A m \in Calls : log[m].op = "write" =>
                  log[m].cmd \notin ConfigCommandSet \cup {":OUTP ON"}
            /\ Done => Closes # {}

\* C17: the lifecycle only moves forward: the enable-output write is issued
\* at most once, and after a disable-output write only further
\* disable-output writes and the close are issued on the connection.
C17_ForwardOnly ==
    /\ Cardinality(WritesOf(":OUTP ON")) <= 1
    /\ \A n \in WritesOf(":OUTP OFF") :
          \A m \in ConnectionCalls :
              m > n => \/ log[m].op = "close"
                       \/ log[m].op = "write" /\ log[m].cmd = ":OUTP OFF"

\* C17 witness: the post-loop disable, the cleanup disable and the close
\* were issued, in that order, after one enable.
C17_Witness ==
    /\ Done
    /\ Cardinality(WritesOf(":OUTP ON")) = 1
    /\ Cardinality(WritesOf(":OUTP OFF")) = 2
    /\ Closes # {}

\* The run as the interpreter executes it: main() takes its next step as
\* long as it has one (every call on the channel returns or raises).
FairSpec == Spec /\ WF_vars(Next)

----------------------------------------------------------------------------
(* scripts/DataAnalysis.py: main() loads a CSV into a frame, computes the   *)
(* power column and its peak, and plots.  The frame has the two columns the *)
(* script reads; a cell is a number or NaN (a missing value).                *)

\* Largest number of rows of a loaded frame.
MaxRows == 2

\* The values a cell of the frame may hold.
Cells == {Num(0 - 2), Num(0), Num(3), NaN}

\* The frames pd.read_csv may return: up to MaxRows rows of
\* (Voltage (V), Current (A)).
Frames == UNION {[1..n -> Cells \X Cells] : n \in 0..MaxRows}

\* Series * Series, element by element: NaN where either operand is NaN.
Mul(a, b) == IF a.nan \/ b.nan THEN NaN ELSE Num(a.val * b.val)

\* Variant of Abs: the sign is kept.
AbsIdentity(a) == a

\* np.abs on one element.
Abs(a) == IF a.nan THEN NaN ELSE Num(IF a.val < 0 THEN 0 - a.val ELSE a.val)

\* Series.max(): the largest element that is not NaN; NaN when there is none
\* (an empty series, or one of NaN only).
SeriesMax(s) ==
    LET vals == {s[n].val : n \in {m \in DOMAIN s : ~s[m].nan}}
    IN  IF vals = {} THEN NaN
        ELSE Num(CHOOSE x \in vals : \A y \in vals : x >= y)

\* lines 34-42: df = pd.read_csv(INPUT_CSV_FILE), or print and return
LoadData ==
    /\ a_pc = "load"
    /\ \E r \in {"ok", "FileNotFoundError", "Exception"} :
        IF r = "ok"
        THEN \E f \in Frames : df' = f /\ a_pc' = "power"
        ELSE a_pc' = "returned" /\ UNCHANGED df
    /\ UNCHANGED <<power, peak_power_watts, peak_power_microwatts>>
    /\ UNCHANGED <<acquisitionVars, pageVars>>

\* line 48: df['Power (W)'] = np.abs(df['Voltage (V)'] * df['Current (A)'])
ComputePower ==
    /\ a_pc = "power"
    /\ power' = [n \in 1..Len(df) |-> Abs(Mul(df[n][1], df[n][2]))]
    /\ a_pc' = "peak"
    /\ UNCHANGED <<df, peak_power_watts, peak_power_microwatts>>
    /\ UNCHANGED <<acquisitionVars, pageVars>>

\* lines 52-55: peak_power_watts = df['Power (W)'].max(), then microwatts
FindPeak ==
    /\ a_pc = "peak"
    /\ peak_power_watts' = SeriesMax(power)
    /\ peak_power_microwatts' = Mul(SeriesMax(power), Num(1000000))
    /\ a_pc' = "plot"
    /\ UNCHANGED <<df, power>>
    /\ UNCHANGED <<acquisitionVars, pageVars>>

\* lines 57-96: print the key metric and show the plot
Plot ==
    /\ a_pc = "plot"
    /\ a_pc' = "done"
    /\ UNCHANGED <<df, power, peak_power_watts, peak_power_microwatts>>
    /\ UNCHANGED <<acquisitionVars, pageVars>>

\* One step of the analysis script.
NextAnalysis ==
    \/ LoadData
    \/ ComputePower
    \/ FindPeak
    \/ Plot

SpecAnalysis == Init /\ [][NextAnalysis]_vars

PowerComputed == a_pc \in {"peak", "plot", "done"}

PeakComputed == a_pc \in {"plot", "done"}

\* The product of row n of the frame, as a plain number.
Product(n) == df[n][1].val * df[n][2].val

\* What the claim says of the power column and of the peak.
PowerIsAbsProduct ==
    /\ Len(power) = Len(df)
    /\ \A n \in 1..Len(df) :
          /\ ~power[n].nan
          /\ power[n].val >= 0
          /\ power[n].val \in {Product(n), 0 - Product(n)}

PeakIsMaximum ==
    /\ ~peak_power_watts.nan
    /\ \A n \in 1..Len(power) : peak_power_watts.val >= power[n].val
    /\ \E n \in 1..Len(power) : peak_power_watts = power[n]

\* C19 as stated: for every series of rows, power[i] is the absolute value
\* of voltage[i] * current[i], hence non-negative, and the peak power is the
\* maximum of the power values: at least each of them and equal to one.
C19_PowerAndPeak ==
    /\ PowerComputed => PowerIsAbsProduct
    /\ PeakComputed => PeakIsMaximum

\* Every cell of the frame holds a number.
NoMissingValue ==
    \A n \in 1..Len(df) : ~df[n][1].nan /\ ~df[n][2].nan

\* C19 amended: the same, for every series that has at least one row and no
\* missing value.
C19_PowerAndPeakOfNumbers ==
    (Len(df) >= 1 /\ NoMissingValue) =>
        /\ PowerComputed => PowerIsAbsProduct
        /\ PeakComputed => PeakIsMaximum

\* C19 witness: the analysis has finished on two rows of numbers, one with a
\* negative product, the other with a larger positive one.
C19_Witness ==
    /\ a_pc = "done"
    /\ Len(df) = 2
    /\ NoMissingValue
    /\ Product(1) < 0
    /\ Product(2) > 0 - Product(1)
    /\ peak_power_watts = Num(Product(2))

----------------------------------------------------------------------------
(* dashboard/pages/analyze_data_page.py: a Streamlit page.  The script runs *)
(* from its first line on every render with its names unbound; an exception *)
(* stops the render.  Widgets return what the user has set.                 *)

\* Number of renders of the page that are followed.
MaxRenders == 2

\* What st.file_uploader may return: nothing, or a file of an accepted type.
UploadStates == {"None", "csv", "xlsx", "txt"}

\* One evaluation of the name df: the line, and what the render had then.
DfRead(l) == [line |-> l, uploaded |-> uploaded_file, df |-> page_df]

\* lines 8-15: title, text, uploaded_file = st.file_uploader(...)
StartRender ==
    /\ p_pc = "start"
    /\ renders < MaxRenders
    /\ renders' = renders + 1
    /\ \E f \in UploadStates : uploaded_file' = f
    /\ page_df' = "unbound"
    /\ df_reads' = <<>>
    /\ page_exc' = "none"
    /\ p_pc' = "upload"
    /\ UNCHANGED <<normalize, remove_outliers>>
    /\ UNCHANGED <<acquisitionVars, analysisVars>>

\* lines 17-22: if uploaded_file: df = pd.read_csv(...) or pd.read_excel(...)
ReadUpload ==
    /\ p_pc = "upload"
    /\ IF uploaded_file # "None"
       THEN \E r \in {"ok", "ParserError"} :
               IF r = "ok"
               THEN page_df' = "DataFrame" /\ p_pc' = "metrics" /\ UNCHANGED page_exc
               ELSE page_exc' = r /\ p_pc' = "stopped" /\ UNCHANGED page_df
       ELSE p_pc' = "metrics" /\ UNCHANGED <<page_df, page_exc>>
    /\ UNCHANGED <<renders, uploaded_file, df_reads, normalize, remove_outliers>>
    /\ UNCHANGED <<acquisitionVars, analysisVars>>

\* A statement that evaluates df at the lines ls, in order, and then goes to
\* position next: with df unbound the first evaluation raises NameError.
UseDf(ls, next) ==
    IF page_df = "unbound"
    THEN /\ df_reads' = Append(df_reads, DfRead(ls[1]))
         /\ page_exc' = "NameError"
         /\ p_pc' = "stopped"
    ELSE /\ df_reads' = df_reads \o [n \in 1..Len(ls) |-> DfRead(ls[n])]
         /\ p_pc' = next
         /\ UNCHANGED page_exc

\* lines 25-29: the Rows, Columns and Missing Values metrics
QuickMetrics ==
    /\ p_pc = "metrics"
    /\ UseDf(<<27, 28, 29>>, "summary")
    /\ UNCHANGED <<renders, uploaded_file, page_df, normalize, remove_outliers>>
    /\ UNCHANGED <<acquisitionVars, analysisVars>>

\* lines 32-35: the tabs, st.write(df.describe())
SummaryTab ==
    /\ p_pc = "summary"
    /\ UseDf(<<35>>, "chart")
    /\ UNCHANGED <<renders, uploaded_file, page_df, normalize, remove_outliers>>
    /\ UNCHANGED <<acquisitionVars, analysisVars>>

\* lines 37-38: st.line_chart(df)
PlotTab ==
    /\ p_pc = "chart"
    /\ UseDf(<<38>>, "table")
    /\ UNCHANGED <<renders, uploaded_file, page_df, normalize, remove_outliers>>
    /\ UNCHANGED <<acquisitionVars, analysisVars>>

\* lines 40-41: st.dataframe(df)
RawTab ==
    /\ p_pc = "table"
    /\ UseDf(<<41>>, "options")
    /\ UNCHANGED <<renders, uploaded_file, page_df, normalize, remove_outliers>>
    /\ UNCHANGED <<acquisitionVars, analysisVars>>

\* lines 44-46: the two checkboxes of the Advanced Options expander
AdvancedOptions ==
    /\ p_pc = "options"
    /\ \E n, r \in BOOLEAN : normalize' = n /\ remove_outliers' = r
    /\ p_pc' = "rendered"
    /\ UNCHANGED <<renders, uploaded_file, page_df, df_reads, page_exc>>
    /\ UNCHANGED <<acquisitionVars, analysisVars>>

\* The user acts on a widget: Streamlit runs the script again.
Rerun ==
    /\ p_pc \in {"rendered", "stopped"}
    /\ renders < MaxRenders
    /\ p_pc' = "start"
    /\ UNCHANGED <<renders, uploaded_file, page_df, df_reads, page_exc,
                   normalize, remove_outliers>>
    /\ UNCHANGED <<acquisitionVars, analysisVars>>

\* One step of the page.
NextPage ==
    \/ StartRender
    \/ ReadUpload
    \/ QuickMetrics
    \/ SummaryTab
    \/ PlotTab
    \/ RawTab
    \/ AdvancedOptions
    \/ Rerun

SpecPage == Init /\ [][NextPage]_vars

\* C20: on every render the data frame is read (row count, column count,
\* missing values, summary, chart, table) only with a file uploaded and
\* loaded; with no file uploaded no step of the page evaluates df.
C20_DfReadOnlyWhenUploaded ==
    \A n \in 1..Len(df_reads) :
        /\ df_reads[n].uploaded # "None"
        /\ df_reads[n].df = "DataFrame"

====
